---------------------------- MODULE Spec2Model ----------------------------
(***************************************************************************)
(* Model of ra-data-thecore (src/src/thecore.js): the react-admin data     *)
(* provider that maps the nine data-provider verbs to HTTP requests of     *)
(* the Thecore REST dialect and reshapes the responses.                    *)
(*                                                                         *)
(* Text.  A JavaScript string is modelled as a sequence of tokens.  A      *)
(* token is either one character that the code or the URL encoding treats  *)
(* specially (a decimal digit, a blank, one of  " , / [ ] { } : = & ? - )  *)
(* or an opaque run of letters, dots and underscores ("posts", "_eq",      *)
(* "title").  Concatenation is \o; numbers are rendered digit by digit.    *)
(*                                                                         *)
(* Values.  A JavaScript value is a tagged record: Num(n), NaN, Str(s),    *)
(* Obj(pairs), Arr(elems), Undefined, Null.  An object is its sequence of  *)
(* <<key, value>>                                                          *)
(* pairs in insertion order, the order Object.entries, the spread syntax   *)
(* and JSON.stringify follow.                                              *)
(***************************************************************************)
EXTENDS Integers, Sequences, FiniteSets, TLC

(***************************************************************************)
(* Bounds of the model.                                                    *)
(***************************************************************************)
MaxPage == 2
MaxRefId == 1
MaxCalls == 2

(***************************************************************************)
(* State.  config is the closure of the factory call: apiUrl and           *)
(* countHeader.  calls holds, per call slot, the call's arguments, where   *)
(* it stands, the requests it handed to httpClient, its local query, what  *)
(* httpClient settled with and how the operation's own promise settled.    *)
(***************************************************************************)
VARIABLES config, calls

vars == <<config, calls>>

(***************************************************************************)
(* JavaScript values.                                                      *)
(***************************************************************************)
Undefined == [t |-> "undefined"]
Null == [t |-> "null"]
NaN == [t |-> "NaN"]
Num(n) == [t |-> "number", n |-> n]
Str(s) == [t |-> "string", s |-> s]
Obj(pairs) == [t |-> "object", o |-> pairs]
Arr(elems) == [t |-> "array", a |-> elems]

\* ToBoolean, as the && of computeFilters applies it: undefined, NaN, 0 and
\* the empty string are falsy, everything else is truthy.
Truthy(v) ==
    CASE v.t = "undefined" -> FALSE
      [] v.t = "null" -> FALSE
      [] v.t = "NaN" -> FALSE
      [] v.t = "number" -> v.n # 0
      [] v.t = "string" -> v.s # <<>>
      [] OTHER -> TRUE

Digits == <<"0", "1", "2", "3", "4", "5", "6", "7", "8", "9">>

IsDigit(c) == \E d \in 1..10 : Digits[d] = c

DigitValue(c) == (CHOOSE d \in 1..10 : Digits[d] = c) - 1

\* Number.prototype.toString for a non-negative integer: its decimal digits.
RECURSIVE Dec(_)
Dec(n) == IF n < 10 THEN <<Digits[n + 1]>>
          ELSE Dec(n \div 10) \o <<Digits[(n % 10) + 1]>>

\* String(v), the conversion a template literal, Array.join and
\* encodeURIComponent apply to a value that is not a string.
String(v) ==
    CASE v.t = "number" -> Dec(v.n)
      [] v.t = "NaN" -> <<"NaN">>
      [] v.t = "string" -> v.s
      [] v.t = "undefined" -> <<"undefined">>
      [] v.t = "null" -> <<"null">>
      [] OTHER -> <<"[", "object", " ", "Object", "]">>

\* Array.prototype.join(sep) over an array of values.
RECURSIVE join(_, _)
join(arr, sep) ==
    IF arr = <<>> THEN <<>>
    ELSE IF Len(arr) = 1 THEN String(arr[1])
    ELSE String(arr[1]) \o sep \o join(Tail(arr), sep)

\* The same over an array of texts.
RECURSIVE joinTexts(_, _)
joinTexts(texts, sep) ==
    IF texts = <<>> THEN <<>>
    ELSE IF Len(texts) = 1 THEN texts[1]
    ELSE texts[1] \o sep \o joinTexts(Tail(texts), sep)

(***************************************************************************)
(* JSON.stringify.                                                         *)
(***************************************************************************)
Quote == "\""
Backslash == "\\"

RECURSIVE JSONescape(_)
JSONescape(s) ==
    IF s = <<>> THEN <<>>
    ELSE (IF Head(s) = Quote \/ Head(s) = Backslash
          THEN <<Backslash, Head(s)>> ELSE <<Head(s)>>) \o JSONescape(Tail(s))

\* JSON.stringify of a string: the string between double quotes, escaped.
JSONstringifyString(s) == <<Quote>> \o JSONescape(s) \o <<Quote>>

\* JSON.stringify of a value; a property whose value is undefined is left
\* out of an object and NaN is written null.
RECURSIVE JSONstringify(_)
RECURSIVE JSONmembers(_)
JSONmembers(pairs) ==
    IF pairs = <<>> THEN <<>>
    ELSE LET rest == JSONmembers(Tail(pairs))
             p == Head(pairs)
         IN IF p[2].t = "undefined" THEN rest
            ELSE <<JSONstringifyString(p[1]) \o <<":">> \o JSONstringify(p[2])>> \o rest
JSONstringify(v) ==
    CASE v.t = "number" -> Dec(v.n)
      [] v.t = "NaN" -> <<"null">>
      [] v.t = "null" -> <<"null">>
      [] v.t = "string" -> JSONstringifyString(v.s)
      [] v.t = "object" -> <<"{">> \o joinTexts(JSONmembers(v.o), <<",">>) \o <<"}">>
      [] OTHER -> <<"undefined">>

(***************************************************************************)
(* query-string's stringify, imported by the provider.                     *)
(***************************************************************************)
\* encodeURIComponent on one token: the reserved characters become percent
\* escapes, letters, digits and - _ . stay.
encodeToken(c) ==
    CASE c = "[" -> "%5B"
      [] c = "]" -> "%5D"
      [] c = " " -> "%20"
      [] c = Quote -> "%22"
      [] c = "," -> "%2C"
      [] c = "/" -> "%2F"
      [] c = ":" -> "%3A"
      [] c = "=" -> "%3D"
      [] c = "&" -> "%26"
      [] c = "?" -> "%3F"
      [] c = "{" -> "%7B"
      [] c = "}" -> "%7D"
      [] c = Backslash -> "%5C"
      [] OTHER -> c

encodeURIComponent(s) == [k \in 1..Len(s) |-> encodeToken(s[k])]

\* The keys the provider hands to stringify, in the order of sort().
KeyAlphabet == <<"ids", "page", "per", "q">>

KeyRank(key) == CHOOSE r \in 1..Len(KeyAlphabet) : KeyAlphabet[r] = key[1]

\* Object.keys(object).sort(): insertion of each pair by the rank of its key.
RECURSIVE sortPairs(_)
InsertPair(p, sorted) ==
    LET before == SelectSeq(sorted, LAMBDA x : KeyRank(x[1]) <= KeyRank(p[1]))
        after == SelectSeq(sorted, LAMBDA x : KeyRank(x[1]) > KeyRank(p[1]))
    IN before \o <<p>> \o after
sortPairs(pairs) ==
    IF pairs = <<>> THEN <<>>
    ELSE InsertPair(Head(pairs), sortPairs(Tail(pairs)))

\* stringify(object): the keys sorted, a key whose value is undefined left
\* out, every other pair written encode(key)=encode(value) and the pairs
\* joined by &.  The value is encoded through its string conversion:
\* stringify does not descend into a nested object.
RECURSIVE stringifyPairs(_)
stringifyPairs(pairs) ==
    IF pairs = <<>> THEN <<>>
    ELSE LET p == Head(pairs)
             rest == stringifyPairs(Tail(pairs))
         IN IF p[2].t = "undefined" THEN rest
            ELSE <<encodeURIComponent(p[1]) \o <<"=">>
                     \o encodeURIComponent(String(p[2]))>> \o rest
stringify(object) == joinTexts(stringifyPairs(sortPairs(object.o)), <<"&">>)

(***************************************************************************)
(* Objects, headers and parseInt.                                          *)
(***************************************************************************)
HasKey(pairs, key) == \E k \in 1..Len(pairs) : pairs[k][1] = key

\* obj[key] = val: an existing property keeps its place, a new one is added
\* at the end.
ObjSet(pairs, key, val) ==
    IF HasKey(pairs, key)
    THEN [k \in 1..Len(pairs) |-> IF pairs[k][1] = key THEN <<key, val>> ELSE pairs[k]]
    ELSE Append(pairs, <<key, val>>)

\* obj[key]: undefined for a property the object does not have.
ObjGet(pairs, key) ==
    IF HasKey(pairs, key)
    THEN pairs[CHOOSE k \in 1..Len(pairs) : pairs[k][1] = key][2]
    ELSE Undefined

\* {...base, ...more}: the properties of more assigned onto base in order.
RECURSIVE ObjAssign(_, _)
ObjAssign(base, more) ==
    IF more = <<>> THEN base
    ELSE ObjAssign(ObjSet(base, Head(more)[1], Head(more)[2]), Tail(more))

\* s.split('/').pop(): what follows the last "/", the whole string when it
\* holds none.
RECURSIVE splitPop(_)
splitPop(s) ==
    IF \A k \in 1..Len(s) : s[k] # "/" THEN s
    ELSE splitPop(Tail(s))

RECURSIVE skipBlanks(_)
skipBlanks(s) == IF s # <<>> /\ Head(s) = " " THEN skipBlanks(Tail(s)) ELSE s

\* The value of the longest prefix of digits of s, on top of acc.
RECURSIVE digitsValue(_, _)
digitsValue(s, acc) ==
    IF s # <<>> /\ IsDigit(Head(s))
    THEN digitsValue(Tail(s), (acc * 10) + DigitValue(Head(s)))
    ELSE acc

\* parseInt(s, 10): leading blanks skipped, an optional sign, then the
\* longest run of digits; NaN when no digit follows.  What comes after the
\* digits is ignored.
parseInt(s) ==
    LET t == skipBlanks(s)
        neg == t # <<>> /\ Head(t) = "-"
        u == IF t # <<>> /\ (Head(t) = "-" \/ Head(t) = "+") THEN Tail(t) ELSE t
    IN IF u = <<>> \/ ~IsDigit(Head(u)) THEN NaN
       ELSE Num(IF neg THEN 0 - digitsValue(u, 0) ELSE digitsValue(u, 0))

(***************************************************************************)
(* What a handler does up to its call of httpClient: it throws, or it      *)
(* calls httpClient once with a request; query is the handler's local.     *)
(***************************************************************************)
Throws(e) == [threw |-> TRUE, error |-> e, query |-> Undefined, request |-> Undefined]

Calls(query, url, options) ==
    [threw |-> FALSE, error |-> "none", query |-> query,
     request |-> [url |-> url, options |-> options]]

\* What a then-callback does: it throws (the promise rejects) or returns.
Rejects(e) == [threw |-> TRUE, error |-> e, value |-> Undefined]

Returns(v) == [threw |-> FALSE, error |-> "none", value |-> v]

(***************************************************************************)
(* computeFilters.                                                         *)
(***************************************************************************)
RECURSIVE genericFilters(_, _)
genericFilters(entries, filters) ==
    IF entries = <<>> THEN filters
    ELSE genericFilters(Tail(entries),
                        ObjSet(filters, Head(entries)[1] \o <<"_eq">>, Head(entries)[2]))

computeFilters(object, page, perPage, field, order, target, id) ==
    LET generic == genericFilters(object, <<>>)
        filters == IF Truthy(target) /\ Truthy(id)
                   THEN ObjSet(generic, String(target) \o <<"_eq">>, id)
                   ELSE generic
        s == Str(JSONstringifyString(field \o <<" ">> \o order))
    IN Obj(<< <<<<"q">>, Obj(ObjAssign(<< <<<<"s">>, s>> >>, filters))>>,
              <<<<"page">>, page>>,
              <<<<"per">>, perPage>> >>)

(***************************************************************************)
(* The nine operations of the provider, up to the call of httpClient.      *)
(* cfg is the constructor's closure: apiUrl and countHeader.               *)
(***************************************************************************)
Has(params, key) == key \in DOMAIN params

getListCall(cfg, resource, params) ==
    IF ~Has(params, "paginate") THEN Throws("TypeError")
    ELSE LET query == computeFilters(params.filter, params.paginate.page,
                                     params.paginate.perPage, params.sort.field,
                                     params.sort.order, Undefined, Undefined)
             url == cfg.apiUrl \o <<"/", resource, "?">> \o stringify(query)
         IN Calls(query, url, Undefined)

getOneCall(cfg, resource, params) ==
    Calls(Undefined, cfg.apiUrl \o <<"/", resource, "/">> \o String(params.id), Undefined)

getManyQuery(ids) ==
    [k \in 1..Len(ids) |-> <<"q", "[", Quote, "id_in", Quote, "]", "[", "]", "=">>
                              \o String(ids[k])]

getManyCall(cfg, resource, params) ==
    LET query == getManyQuery(params.ids)
    IN Calls(Undefined,
             cfg.apiUrl \o <<"/", resource, "?">> \o joinTexts(query, <<"&">>),
             Undefined)

getManyReferenceCall(cfg, resource, params) ==
    IF ~Has(params, "pagination") THEN Throws("TypeError")
    ELSE LET query == computeFilters(params.filter, params.pagination.page,
                                     params.pagination.perPage, params.sort.field,
                                     params.sort.order,
                                     IF Has(params, "target") THEN params.target ELSE Undefined,
                                     IF Has(params, "id") THEN params.id ELSE Undefined)
             url == cfg.apiUrl \o <<"/", resource, "?">> \o stringify(query)
         IN Calls(query, url, Undefined)

\* JSON.stringify({[resource]: params.data})
envelope(resource, data) == JSONstringify(Obj(<< <<<<resource>>, data>> >>))

createCall(cfg, resource, params) ==
    Calls(Undefined, cfg.apiUrl \o <<"/", resource>>,
          [method |-> "POST", body |-> envelope(resource, params.data)])

updateCall(cfg, resource, params) ==
    Calls(Undefined, cfg.apiUrl \o <<"/", resource, "/">> \o String(params.id),
          [method |-> "PUT", body |-> envelope(resource, params.data)])

\* A variant: the ids sent as the JSON array, JSON.stringify(params.ids).
updateManyQueryAsArray(ids) ==
    Obj(<< <<<<"ids">>, Str(<<"[">> \o join(ids, <<",">>) \o <<"]">>)>> >>)

updateManyQuery(ids) ==
    Obj(<< <<<<"ids">>, Str(JSONstringifyString(join(ids, <<",">>)))>> >>)

updateManyCall(cfg, resource, params) ==
    LET query == updateManyQuery(params.ids)
    IN Calls(query,
             cfg.apiUrl \o <<"/", resource, "/", "multi", "?">> \o stringify(query),
             [method |-> "PUT", body |-> envelope(resource, params.data)])

deleteCall(cfg, resource, params) ==
    Calls(Undefined, cfg.apiUrl \o <<"/", resource, "/">> \o String(params.id),
          [method |-> "DELETE"])

deleteManyQuery(ids) ==
    Obj(<< <<<<"ids">>, Str(JSONstringifyString(join(ids, <<",">>)))>> >>)

deleteManyCall(cfg, resource, params) ==
    LET query == deleteManyQuery(params.ids)
    IN Calls(query,
             cfg.apiUrl \o <<"/", resource, "/", "multi", "?">> \o stringify(query),
             [method |-> "DELETE"])

(***************************************************************************)
(* The then-callbacks.  A response is [headers, json]; headers is a        *)
(* function from the names of the headers present to their values.         *)
(***************************************************************************)
\* headers.get(name): null for a header that is not there.
headersGet(headers, name) == IF name \in DOMAIN headers THEN Str(headers[name]) ELSE Null

\* A variant: the total read from Content-Range whatever countHeader names.
getListThenContentRange(cfg, params, response) ==
    LET header == headersGet(response.headers, "Content-Range")
    IN IF header.t # "string" THEN Rejects("TypeError")
       ELSE Returns([data |-> response.json, total |-> parseInt(splitPop(header.s))])

\* The callback of getList: .split on the null of a missing header throws
\* a TypeError, which rejects the promise.
getListThenResult(cfg, params, response) ==
    LET header == headersGet(response.headers, cfg.countHeader)
    IN IF header.t # "string" THEN Rejects("TypeError")
       ELSE Returns([data |-> response.json, total |-> parseInt(splitPop(header.s))])

\* The callback of getManyReference, the same expression.
getManyReferenceThenResult(cfg, params, response) ==
    LET header == headersGet(response.headers, cfg.countHeader)
    IN IF header.t # "string" THEN Rejects("TypeError")
       ELSE Returns([data |-> response.json, total |-> parseInt(splitPop(header.s))])

\* A variant: the callback reads a response kept in a variable the calls
\* share, so it may see the response of another call in flight.
dataThenSharedResponse(cfg, params, response) ==
    LET others == {j \in DOMAIN calls : /\ calls[j].response # Undefined
                                         /\ calls[j].response # response}
    IN IF others = {} THEN Returns([data |-> response.json])
       ELSE Returns([data |-> calls[CHOOSE j \in others : TRUE].response.json])

\* ({json}) => ({data: json}), the callback of getOne, getMany, update,
\* updateMany, delete and deleteMany.
dataThen(cfg, params, response) == Returns([data |-> response.json])

\* A variant: every field of the response spread over data.
createThenServerFields(cfg, params, response) ==
    IF response.json.t # "object" THEN Rejects("TypeError")
    ELSE Returns([data |-> Obj(ObjAssign(params.data.o, response.json.o))])

\* The callback of create: json.id throws on a body that is no object.
createThenResult(cfg, params, response) ==
    IF response.json.t # "object" THEN Rejects("TypeError")
    ELSE Returns([data |-> Obj(ObjSet(params.data.o, <<"id">>,
                                      ObjGet(response.json.o, <<"id">>)))])

(***************************************************************************)
(* The inputs: what the caller passes and what the server answers.         *)
(***************************************************************************)
ApiUrl == <<"http://my.api.url">>

CountHeaders == {"Content-Range", "X-Total-Count"}

Resources == {"posts", "comments"}

Paginations == {[page |-> Num(p), perPage |-> Num(4)] : p \in 1..MaxPage}

Sorts == {[field |-> <<"email">>, order |-> <<"ASC">>],
          [field |-> <<"title">>, order |-> <<"DESC">>]}

Filters ==
    {<<>>,
     << <<<<"title">>, Num(7)>> >>,
     << <<<<"title">>, Num(7)>>, <<<<"post_id">>, Num(9)>> >>}

\* The params of a list: react-admin passes the page under "pagination";
\* getList reads "paginate".  The caller may pass either or both.
PaginationKeys == {{"pagination"}, {"paginate"}, {"pagination", "paginate"}}

ListParamsOf(keys, pg, sort, filter) ==
    [k \in keys \cup {"sort", "filter"} |->
        CASE k = "sort" -> sort
          [] k = "filter" -> filter
          [] OTHER -> pg]

ListParams ==
    {ListParamsOf(keys, pg, sort, filter) :
        keys \in PaginationKeys, pg \in Paginations, sort \in Sorts, filter \in Filters}

Targets == {Str(<<"post_id">>), Str(<<"author_id">>)}

ReferenceIds == {Num(n) : n \in 0..MaxRefId}

ReferenceParams ==
    {p @@ [target |-> target, id |-> id] :
        p \in ListParams, target \in Targets, id \in ReferenceIds}

RecordIds == ReferenceIds \cup {Num(123)}

IdLists ==
    {<<>>, <<Num(123)>>, <<Num(123), Num(124), Num(125)>>, <<Num(0), Num(1)>>}

Hello == Str(<<"hello">>)

Datas ==
    {Obj(<<>>),
     Obj(<< <<<<"title">>, Hello>> >>),
     Obj(<< <<<<"id">>, Num(5)>>, <<<<"title">>, Hello>> >>),
     Obj(<< <<<<"title">>, Hello>>, <<<<"author_id">>, Num(12)>> >>)}

OneParams == {[id |-> id] : id \in RecordIds}

ManyParams == {[ids |-> ids] : ids \in IdLists}

CreateParams == {[data |-> data] : data \in Datas}

UpdateParams == {[id |-> id, data |-> data] : id \in RecordIds, data \in Datas}

UpdateManyParams == {[ids |-> ids, data |-> data] : ids \in IdLists, data \in Datas}

\* Values of a count header: <resource> <start>-<end>/<total>, the bare
\* total, and values whose trailing segment is no integer.
RangeHeader(resource, start, end, total) ==
    <<resource, " ">> \o Dec(start) \o <<"-">> \o Dec(end) \o <<"/">> \o Dec(total)

WellFormedHeaders == {RangeHeader("posts", 0, 4, 27), RangeHeader("comments", 1, 2, 319)}

MalformedHeaders ==
    {<<"posts", " ", "0", "-", "4", "/", "abc">>,
     <<"posts", " ", "0", "-", "4">>,
     <<"posts", " ", "0", "-", "4", "/", "1", "2", "abc">>}

HeaderValues == WellFormedHeaders \cup MalformedHeaders

Headers == UNION {[S -> HeaderValues] : S \in SUBSET CountHeaders}

NoHeaders == [h \in {} |-> <<>>]

Record1 == Obj(<< <<<<"id">>, Num(123)>>, <<<<"title">>, Hello>> >>)

ListJsons == {Arr(<<>>), Arr(<<Record1>>)}

CreateJsons ==
    {Obj(<< <<<<"id">>, Num(123)>> >>),
     Obj(<< <<<<"id">>, Num(124)>>, <<<<"title">>, Str(<<"server">>)>>,
            <<<<"created_at">>, Num(9)>> >>),
     Obj(<< <<<<"title">>, Hello>> >>),
     Undefined}

IdsJsons == {Arr(<<>>), Arr(<<Num(123), Num(124), Num(125)>>)}

\* What the server may answer to a request of each operation.
Responses(op) ==
    CASE op \in {"getList", "getManyReference"} ->
            {[headers |-> h, json |-> j] : h \in Headers, j \in ListJsons}
      [] op = "getMany" -> {[headers |-> NoHeaders, json |-> j] : j \in ListJsons}
      [] op = "create" -> {[headers |-> NoHeaders, json |-> j] : j \in CreateJsons}
      [] op \in {"updateMany", "deleteMany"} ->
            {[headers |-> NoHeaders, json |-> j] : j \in IdsJsons}
      [] OTHER -> {[headers |-> NoHeaders, json |-> j] : j \in {Record1, Undefined}}

\* The errors httpClient rejects with: a network failure, an HTTP status.
TransportErrors == {"NetworkError", "HttpError"}

Slots == 1..MaxCalls

Idle ==
    [op |-> "none", resource |-> "none", params |-> Undefined, st |-> "idle",
     sent |-> <<>>, query |-> Undefined, response |-> Undefined,
     transportError |-> "none", result |-> Undefined, error |-> "none"]

\* The factory: apiUrl, httpClient and countHeader (default Content-Range)
\* are bound once.
Init ==
    /\ config \in {[apiUrl |-> ApiUrl, countHeader |-> h] : h \in CountHeaders}
    /\ calls = [i \in Slots |-> Idle]

\* A call of an operation: the handler runs to its call of httpClient.
Invoke(i, op, resource, params, step) ==
    /\ calls[i].st = "idle"
    /\ calls' = [calls EXCEPT ![i] =
                    [Idle EXCEPT !.op = op, !.resource = resource, !.params = params,
                                 !.st = IF step.threw THEN "threw" ELSE "pending",
                                 !.sent = IF step.threw THEN <<>> ELSE <<step.request>>,
                                 !.query = step.query,
                                 !.error = step.error]]
    /\ UNCHANGED config

getList(i, P) ==
    \E in \in P :
        Invoke(i, "getList", in.resource, in.params,
               getListCall(config, in.resource, in.params))

getOne(i, P) ==
    \E in \in P :
        Invoke(i, "getOne", in.resource, in.params,
               getOneCall(config, in.resource, in.params))

getMany(i, P) ==
    \E in \in P :
        Invoke(i, "getMany", in.resource, in.params,
               getManyCall(config, in.resource, in.params))

getManyReference(i, P) ==
    \E in \in P :
        Invoke(i, "getManyReference", in.resource, in.params,
               getManyReferenceCall(config, in.resource, in.params))

create(i, P) ==
    \E in \in P :
        Invoke(i, "create", in.resource, in.params,
               createCall(config, in.resource, in.params))

update(i, P) ==
    \E in \in P :
        Invoke(i, "update", in.resource, in.params,
               updateCall(config, in.resource, in.params))

updateMany(i, P) ==
    \E in \in P :
        Invoke(i, "updateMany", in.resource, in.params,
               updateManyCall(config, in.resource, in.params))

delete(i, P) ==
    \E in \in P :
        Invoke(i, "delete", in.resource, in.params,
               deleteCall(config, in.resource, in.params))

deleteMany(i, P) ==
    \E in \in P :
        Invoke(i, "deleteMany", in.resource, in.params,
               deleteManyCall(config, in.resource, in.params))

\* httpClient settles the promise it returned: with a response ...
httpClientResolves(i, R) ==
    /\ calls[i].st = "pending"
    /\ \E response \in R[calls[i].op] :
          calls' = [calls EXCEPT ![i].st = "responded", ![i].response = response]
    /\ UNCHANGED config

\* ... or with an error.
httpClientRejects(i, E) ==
    /\ calls[i].st = "pending"
    /\ \E e \in E :
          calls' = [calls EXCEPT ![i].st = "failed", ![i].transportError = e]
    /\ UNCHANGED config

\* A then-callback runs on the response and settles the operation's promise.
Then(i, op, out) ==
    /\ calls[i].st = "responded"
    /\ calls[i].op = op
    /\ calls' = [calls EXCEPT ![i].st = IF out.threw THEN "rejected" ELSE "resolved",
                              ![i].result = out.value,
                              ![i].error = out.error]
    /\ UNCHANGED config

getListThen(i) ==
    Then(i, "getList", getListThenResult(config, calls[i].params, calls[i].response))

getOneThen(i) == Then(i, "getOne", dataThen(config, calls[i].params, calls[i].response))

getManyThen(i) == Then(i, "getMany", dataThen(config, calls[i].params, calls[i].response))

getManyReferenceThen(i) ==
    Then(i, "getManyReference",
         getManyReferenceThenResult(config, calls[i].params, calls[i].response))

createThen(i) ==
    Then(i, "create", createThenResult(config, calls[i].params, calls[i].response))

updateThen(i) == Then(i, "update", dataThen(config, calls[i].params, calls[i].response))

updateManyThen(i) ==
    Then(i, "updateMany", dataThen(config, calls[i].params, calls[i].response))

deleteThen(i) == Then(i, "delete", dataThen(config, calls[i].params, calls[i].response))

deleteManyThen(i) ==
    Then(i, "deleteMany", dataThen(config, calls[i].params, calls[i].response))

\* A variant: the rejection is caught and the request sent again.
RejectionRetried(i) ==
    /\ calls[i].st = "failed"
    /\ calls' = [calls EXCEPT ![i].st = "pending",
                              ![i].sent = calls[i].sent \o calls[i].sent]
    /\ UNCHANGED config

\* then() was given no rejection handler: the promise it returned rejects
\* with the error of httpClient's.
RejectionPassesThrough(i) ==
    /\ calls[i].st = "failed"
    /\ calls' = [calls EXCEPT ![i].st = "rejected",
                              ![i].error = calls[i].transportError]
    /\ UNCHANGED config

(***************************************************************************)
(* Spec: one call, any operation, any input, any answer.                   *)
(***************************************************************************)
Operations == {"getList", "getOne", "getMany", "getManyReference", "create",
               "update", "updateMany", "delete", "deleteMany"}

Inputs(R, P) == {[resource |-> r, params |-> p] : r \in R, p \in P}

AllResponses == [op \in Operations |-> Responses(op)]

Next ==
    \E i \in {1} :
        \/ getList(i, Inputs(Resources, ListParams))
        \/ getOne(i, Inputs(Resources, OneParams))
        \/ getMany(i, Inputs(Resources, ManyParams))
        \/ getManyReference(i, Inputs(Resources, ReferenceParams))
        \/ create(i, Inputs(Resources, CreateParams))
        \/ update(i, Inputs(Resources, UpdateParams))
        \/ updateMany(i, Inputs(Resources, UpdateManyParams))
        \/ delete(i, Inputs(Resources, OneParams))
        \/ deleteMany(i, Inputs(Resources, ManyParams))
        \/ httpClientResolves(i, AllResponses)
        \/ httpClientRejects(i, TransportErrors)
        \/ getListThen(i)
        \/ getOneThen(i)
        \/ getManyThen(i)
        \/ getManyReferenceThen(i)
        \/ createThen(i)
        \/ updateThen(i)
        \/ updateManyThen(i)
        \/ deleteThen(i)
        \/ deleteManyThen(i)
        \/ RejectionPassesThrough(i)

Spec == Init /\ [][Next]_vars

(***************************************************************************)
(* SpecConcurrent: every slot holds a call, the calls are in flight        *)
(* together and httpClient settles them in any order.  One input per       *)
(* operation keeps the product of the slots small.                         *)
(***************************************************************************)
ConcListParams ==
    {ListParamsOf({"pagination", "paginate"}, [page |-> Num(1), perPage |-> Num(4)],
                  [field |-> <<"email">>, order |-> <<"ASC">>],
                  << <<<<"title">>, Num(7)>> >>)}

ConcReferenceParams ==
    {p @@ [target |-> Str(<<"post_id">>), id |-> Num(1)] : p \in ConcListParams}

ConcListHeaders ==
    {[h \in CountHeaders |-> RangeHeader("posts", 0, 4, 27)],
     [h \in CountHeaders |-> RangeHeader("comments", 1, 2, 319)]}

ConcResponses ==
    [op \in Operations |->
        CASE op \in {"getList", "getManyReference"} ->
                {[headers |-> h, json |-> Arr(<<Record1>>)] : h \in ConcListHeaders}
          [] op = "getMany" -> {[headers |-> NoHeaders, json |-> Arr(<<Record1>>)]}
          [] op = "create" ->
                {[headers |-> NoHeaders, json |-> Obj(<< <<<<"id">>, Num(123)>> >>)]}
          [] op \in {"updateMany", "deleteMany"} ->
                {[headers |-> NoHeaders, json |-> Arr(<<Num(123)>>)]}
          [] OTHER -> {[headers |-> NoHeaders, json |-> Record1]}]

ConcData == Obj(<< <<<<"title">>, Hello>> >>)

NextConcurrent ==
    \E i \in Slots :
        \/ getList(i, Inputs({"posts"}, ConcListParams))
        \/ getOne(i, Inputs({"posts"}, {[id |-> Num(123)]}))
        \/ getMany(i, Inputs({"posts"}, {[ids |-> <<Num(123)>>]}))
        \/ getManyReference(i, Inputs({"comments"}, ConcReferenceParams))
        \/ create(i, Inputs({"posts"}, {[data |-> ConcData]}))
        \/ update(i, Inputs({"posts"}, {[id |-> Num(123), data |-> ConcData]}))
        \/ updateMany(i, Inputs({"posts"}, {[ids |-> <<Num(123)>>, data |-> ConcData]}))
        \/ delete(i, Inputs({"comments"}, {[id |-> Num(123)]}))
        \/ deleteMany(i, Inputs({"comments"}, {[ids |-> <<Num(123)>>]}))
        \/ httpClientResolves(i, ConcResponses)
        \/ httpClientRejects(i, {"NetworkError"})
        \/ getListThen(i)
        \/ getOneThen(i)
        \/ getManyThen(i)
        \/ getManyReferenceThen(i)
        \/ createThen(i)
        \/ updateThen(i)
        \/ updateManyThen(i)
        \/ deleteThen(i)
        \/ deleteManyThen(i)
        \/ RejectionPassesThrough(i)

SpecConcurrent == Init /\ [][NextConcurrent]_vars

(***************************************************************************)
(* Reading a URL back: the query after "?", its parameters split on "&"    *)
(* and "=", percent escapes decoded.                                       *)
(***************************************************************************)
Contains(s, c) == \E k \in 1..Len(s) : s[k] = c

FirstIndex(s, c) == CHOOSE k \in 1..Len(s) : s[k] = c /\ \A m \in 1..(k - 1) : s[m] # c

BeforeFirst(s, c) == IF Contains(s, c) THEN SubSeq(s, 1, FirstIndex(s, c) - 1) ELSE s

AfterFirst(s, c) == IF Contains(s, c) THEN SubSeq(s, FirstIndex(s, c) + 1, Len(s)) ELSE <<>>

RECURSIVE SplitOn(_, _)
SplitOn(s, c) ==
    IF Contains(s, c) THEN <<BeforeFirst(s, c)>> \o SplitOn(AfterFirst(s, c), c)
    ELSE <<s>>

PercentDecodeToken(c) ==
    CASE c = "%5B" -> "["
      [] c = "%5D" -> "]"
      [] c = "%20" -> " "
      [] c = "%22" -> Quote
      [] c = "%2C" -> ","
      [] c = "%2F" -> "/"
      [] OTHER -> c

PercentDecode(s) == [k \in 1..Len(s) |-> PercentDecodeToken(s[k])]

\* The parameters of a URL, each <<name, value>>, decoded.
UrlParams(url) ==
    LET parts == SelectSeq(SplitOn(AfterFirst(url, "?"), "&"), LAMBDA x : x # <<>>)
    IN [k \in 1..Len(parts) |->
           <<PercentDecode(BeforeFirst(parts[k], "=")),
             PercentDecode(AfterFirst(parts[k], "="))>>]

CountOf(ps, name, value) == Cardinality({k \in 1..Len(ps) : ps[k] = <<name, value>>})

\* q[<name>]
QKey(name) == <<"q", "[">> \o name \o <<"]">>

IsEqKey(name) ==
    /\ Len(name) >= 4
    /\ name[1] = "q" /\ name[2] = "[" /\ name[Len(name)] = "]"
    /\ name[Len(name) - 1] = "_eq"

\* The JSON text of the string "<field> <order>".
SortJson(sort) == <<Quote>> \o sort.field \o <<" ">> \o sort.order \o <<Quote>>

Invoked(i, ops) == calls[i].op \in ops

SentOne(i) == Len(calls[i].sent) = 1

(***************************************************************************)
(* C1.  The URL getList hands to httpClient carries q[s] whose value is    *)
(* the JSON text of "<field> <order>", exactly one q[<key>_eq]=<value>     *)
(* for each entry of the filter and no other q[..._eq] parameter.          *)
(***************************************************************************)
C1_ListUrlCarriesSortAndFilters ==
    \A i \in Slots :
        Invoked(i, {"getList"}) =>
            /\ SentOne(i)
            /\ LET ps == UrlParams(calls[i].sent[1].url)
                   filter == calls[i].params.filter
               IN /\ \E k \in 1..Len(ps) :
                        ps[k] = <<QKey(<<"s">>), SortJson(calls[i].params.sort)>>
                  /\ \A e \in 1..Len(filter) :
                        CountOf(ps, QKey(filter[e][1] \o <<"_eq">>), String(filter[e][2])) = 1
                  /\ \A k \in 1..Len(ps) :
                        IsEqKey(ps[k][1]) =>
                            \E e \in 1..Len(filter) :
                                ps[k] = <<QKey(filter[e][1] \o <<"_eq">>), String(filter[e][2])>>

(***************************************************************************)
(* C2.  A response to getList or getManyReference without the count        *)
(* header, or with one whose part after the last "/" is no integer, makes  *)
(* the operation fail; it never resolves.                                  *)
(***************************************************************************)
IsInteger(s) == s # <<>> /\ \A k \in 1..Len(s) : IsDigit(s[k])

RECURSIVE TrailingSegment(_)
TrailingSegment(s) == IF Contains(s, "/") THEN TrailingSegment(AfterFirst(s, "/")) ELSE s

Answered(i) == calls[i].st \in {"resolved", "rejected"} /\ calls[i].response # Undefined

BadCountHeader(i) ==
    LET headers == calls[i].response.headers
    IN \/ config.countHeader \notin DOMAIN headers
       \/ ~IsInteger(TrailingSegment(headers[config.countHeader]))

C2_BadCountHeaderFails ==
    \A i \in Slots :
        (Invoked(i, {"getList", "getManyReference"}) /\ Answered(i) /\ BadCountHeader(i))
            => calls[i].st = "rejected"

(***************************************************************************)
(* C3.  updateMany and deleteMany send one request to                      *)
(* <apiUrl>/<resource>/multi?ids=<v>, PUT with the body {<resource>: data} *)
(* and DELETE, and resolve to {data: <the server's json>}.  As claimed,    *)
(* <v> encodes the JSON array of the ids (C3_IdsSentAsJsonArray); as       *)
(* amended, <v> encodes the JSON string of the ids joined by commas        *)
(* (C3_IdsSentAsJsonString).                                               *)
(***************************************************************************)
RECURSIVE IdsJoined(_, _)
IdsJoined(ids, sep) ==
    IF ids = <<>> THEN <<>>
    ELSE IF Len(ids) = 1 THEN Dec(ids[1].n)
    ELSE Dec(ids[1].n) \o <<sep>> \o IdsJoined(Tail(ids), sep)

ExpectedEnvelope(resource, data) ==
    <<"{", Quote, resource, Quote, ":">> \o JSONstringify(data) \o <<"}">>

Example123 == <<Num(123), Num(124), Num(125)>>

BatchRequestIs(i, open, close, example) ==
    /\ SentOne(i)
    /\ calls[i].sent[1].url =
          config.apiUrl \o <<"/", calls[i].resource, "/", "multi", "?", "ids", "=">>
             \o <<open>> \o IdsJoined(calls[i].params.ids, "%2C") \o <<close>>
    /\ calls[i].params.ids = Example123 => AfterFirst(calls[i].sent[1].url, "?") = example
    /\ calls[i].op = "updateMany" =>
          calls[i].sent[1].options =
             [method |-> "PUT",
              body |-> ExpectedEnvelope(calls[i].resource, calls[i].params.data)]
    /\ calls[i].op = "deleteMany" => calls[i].sent[1].options = [method |-> "DELETE"]
    /\ calls[i].st = "resolved" => calls[i].result = [data |-> calls[i].response.json]

CarriesPage(url, pagination) ==
    LET ps == UrlParams(url)
    IN /\ CountOf(ps, <<"page">>, Dec(pagination.page.n)) = 1
       /\ CountOf(ps, <<"per">>, Dec(pagination.perPage.n)) = 1

C4_ReferenceIsListPlusConstraint ==
    \A i \in Slots :
        (Invoked(i, {"getManyReference"}) /\ Has(calls[i].params, "pagination")) =>
            LET params == calls[i].params
                list == getListCall(config, calls[i].resource, params)
                targetKey == params.target.s \o <<"_eq">>
            IN /\ ~list.threw
               /\ SentOne(i)
               /\ calls[i].query.o[1][2].o = ObjSet(list.query.o[1][2].o, targetKey, params.id)
               /\ calls[i].query.o[2] = list.query.o[2]
               /\ calls[i].query.o[3] = list.query.o[3]
               /\ CarriesPage(list.request.url, params.pagination)
               /\ CarriesPage(calls[i].sent[1].url, params.pagination)

(***************************************************************************)
(* C5.  For every target field and reference id, 0 included, and every     *)
(* filter, the query getManyReference builds holds both                    *)
(* q[s] = JSON of "<field> <order>" and q[<target>_eq] = <id>.             *)
(***************************************************************************)
C5_ReferenceQueryHasSortAndTarget ==
    \A i \in Slots :
        (Invoked(i, {"getManyReference"}) /\ Has(calls[i].params, "pagination")) =>
            /\ SentOne(i)
            /\ LET params == calls[i].params
                   q == calls[i].query.o[1][2].o
               IN /\ calls[i].query.o[1][1] = <<"q">>
                  /\ ObjGet(q, <<"s">>) = Str(SortJson(params.sort))
                  /\ ObjGet(q, params.target.s \o <<"_eq">>) = params.id

(***************************************************************************)
(* C6.  Every operation called with well-formed params (a list's page     *)
(* under "pagination") hands exactly one request to httpClient, however    *)
(* httpClient settles.                                                     *)
(***************************************************************************)
WellFormed(i) ==
    Invoked(i, {"getList", "getManyReference"}) => Has(calls[i].params, "pagination")

C6_ExactlyOneTransportCall ==
    \A i \in Slots :
        (Invoked(i, Operations) /\ WellFormed(i)) => SentOne(i)

(***************************************************************************)
(* C7.  When httpClient rejects with an error, the operation hands no      *)
(* second request to httpClient, produces no result and, once its promise  *)
(* has settled, is rejected with that same error.                          *)
(***************************************************************************)
C7_TransportErrorPropagates ==
    \A i \in Slots :
        calls[i].transportError # "none" =>
            /\ SentOne(i)
            /\ calls[i].result = Undefined
            /\ calls[i].st \in {"failed", "rejected"}
            /\ calls[i].st = "rejected" => calls[i].error = calls[i].transportError

C7_Witness ==
    \E i \in Slots :
        /\ calls[i].st = "rejected"
        /\ calls[i].error = "HttpError"
        /\ calls[i].op = "getList"

(***************************************************************************)
(* C8.  create sends POST <apiUrl>/<resource> with the body                *)
(* {<resource>: data}; on a response that carries an id it resolves to     *)
(* {data: R}, R holding every field of data with the value submitted,      *)
(* except R.id, which is the id of the response, and no other field.       *)
(***************************************************************************)
Keys(pairs) == {pairs[k][1] : k \in 1..Len(pairs)}

ExpectedTotals ==
    {[value |-> <<"posts", " ", "0", "-", "4", "/", "2", "7">>, total |-> 27],
     [value |-> <<"comments", " ", "1", "-", "2", "/", "3", "1", "9">>, total |-> 319]}

C9_TotalIsTrailingInteger ==
    \A i \in Slots :
        (Invoked(i, {"getList", "getManyReference"}) /\ Answered(i)) =>
            \A e \in ExpectedTotals :
                (/\ config.countHeader \in DOMAIN calls[i].response.headers
                 /\ calls[i].response.headers[config.countHeader] = e.value) =>
                    /\ calls[i].st = "resolved"
                    /\ calls[i].result = [data |-> calls[i].response.json,
                                          total |-> Num(e.total)]

C9_Witness ==
    \E i \in Slots :
        /\ calls[i].op = "getList"
        /\ calls[i].st = "resolved"
        /\ config.countHeader = "X-Total-Count"
        /\ DOMAIN calls[i].response.headers = CountHeaders
        /\ calls[i].response.headers["X-Total-Count"] = <<"posts", " ", "0", "-", "4", "/", "2", "7">>
        /\ calls[i].response.headers["Content-Range"] # calls[i].response.headers["X-Total-Count"]
        /\ calls[i].result.total = Num(27)

(***************************************************************************)
(* C10.  Calls in flight together are independent: a step of one call      *)
(* leaves every other call and the configuration as they were, and in      *)
(* every interleaving each call's request names its own resource and id    *)
(* and each call's result is made of its own response.                     *)
(***************************************************************************)
OwnRequest(c) ==
    c.sent # <<>> =>
        /\ Len(c.sent) = 1
        /\ SubSeq(c.sent[1].url, 1, 3) = ApiUrl \o <<"/", c.resource>>
        /\ c.op \in {"getOne", "update", "delete"} =>
              c.sent[1].url = ApiUrl \o <<"/", c.resource, "/">> \o Dec(c.params.id.n)
        /\ c.op \in {"create", "update", "updateMany"} =>
              c.sent[1].options.body = ExpectedEnvelope(c.resource, c.params.data)

OwnResult(c) ==
    c.st = "resolved" =>
        /\ c.op # "create" => c.result.data = c.response.json
        /\ c.op = "create" =>
              ObjGet(c.result.data.o, <<"id">>) = ObjGet(c.response.json.o, <<"id">>)
        /\ c.op \in {"getList", "getManyReference"} =>
              \E e \in ExpectedTotals :
                  /\ c.response.headers[config.countHeader] = e.value
                  /\ c.result.total = Num(e.total)

IndependentStep ==
    /\ config' = config
    /\ \A i \in Slots : calls'[i] # calls[i] => \A j \in Slots \ {i} : calls'[j] = calls[j]
    /\ \A i \in Slots : OwnRequest(calls'[i]) /\ OwnResult(calls'[i])

C10_CallsAreIndependent == [][IndependentStep]_vars

C10_Witness ==
    \E i \in Slots, j \in Slots :
        /\ i < j
        /\ calls[i].op = "getManyReference" /\ calls[j].op = "getManyReference"
        /\ calls[i].st = "pending" /\ calls[j].st = "resolved"
        /\ calls[j].result.total = Num(319)

=============================================================================
